---- MODULE Spec2Model ----
(***************************************************************************)
(* Awanbot backend (src/main.py, src/database.py): a FastAPI service with  *)
(* a feedback and a bookings collection in MongoDB.  Every request is an   *)
(* asyncio handler that can be suspended at each database await, so the    *)
(* model gives one action to each stretch of handler code between two      *)
(* awaits.  Request bodies carry timezone-aware datetimes (spec 4.2.6);    *)
(* the driver stores a datetime as a UTC instant of millisecond precision. *)
(***************************************************************************)
EXTENDS Integers, Sequences, FiniteSets

\* ------------------------------------------------------------ bounds
\* number of requests of one behaviour (each slot is one handler invocation)
MaxReqs == 2

\* ------------------------------------------------------------ program constants
MinFeedbackLen == 10
OpenHour == 9
CloseHour == 18

MsPerMinute == 60 * 1000
MsPerHour == 60 * MsPerMinute
MsPerDay == 24 * MsPerHour

API_KEY == "secret"
NoHeader == "<absent>"
Headers == {NoHeader, "wrong", API_KEY}

Reqs == 1..MaxReqs

\* ------------------------------------------------------------ datetimes
\* An aware datetime: the UTC instant as whole milliseconds (ms) plus the
\* microseconds below the millisecond (us), and the UTC offset in hours (off).
At(day, hh, mm, us, off) ==
  [ms |-> day * MsPerDay + (hh - off) * MsPerHour + mm * MsPerMinute,
   us |-> us, off |-> off]

\* datetime.__lt__ on aware datetimes compares the instants
Before(a, b) == a.ms < b.ms \/ (a.ms = b.ms /\ a.us < b.us)

\* datetime.hour: the hour of the wall clock in the datetime's own offset
Hour(dt) == ((dt.ms + dt.off * MsPerHour + MsPerDay) \div MsPerHour) % 24

\* BSON encoding of a datetime (insert_one documents and find_one filters):
\* converted to UTC and truncated to whole milliseconds; read back naive UTC
ToBson(dt) == [ms |-> dt.ms, us |-> 0, off |-> 0]

\* ------------------------------------------------------------ texts
Rep(c, n) == [i \in 1..n |-> c]

IsSpace(c) == c = " "

RECURSIVE LStrip(_)
LStrip(s) == IF s # <<>> /\ IsSpace(Head(s)) THEN LStrip(Tail(s)) ELSE s

RECURSIVE RStrip(_)
RStrip(s) ==
  IF s # <<>> /\ IsSpace(s[Len(s)]) THEN RStrip(SubSeq(s, 1, Len(s) - 1)) ELSE s

\* str.strip()
Strip(s) == RStrip(LStrip(s))

\* len(feedback_in.feedback.strip()) < 10, without the strip
TooShortNoStrip(text) == Len(text) < MinFeedbackLen

\* len(feedback_in.feedback.strip()) < 10
TooShort(text) == Len(Strip(text)) < MinFeedbackLen

\* ------------------------------------------------------------ requests
\* a 24-hex-digit identifier is the number of the ObjectId it renders;
\* hex = FALSE is a string such as "not-an-id"
NoId == [hex |-> FALSE, oid |-> 0]
PathIds == {NoId} \cup {[hex |-> TRUE, oid |-> k] : k \in 1..(MaxReqs + 1)}

\* ObjectId.is_valid(id)
ObjectIdIsValid(id) == id.hex

FeedbackFields == {"name", "email", "feedback"}
BookingFields == {"name", "email", "start_time", "end_time", "topic"}

\* a body that fails the pydantic model of either POST route (fields missing)
InvalidBody == [name |-> "Alice"]

Texts ==
  { <<>>,
    Rep(" ", 12),
    Rep("a", 9),
    Rep("a", 10),
    <<" ">> \o Rep("a", 9) \o <<" ", " ">>,
    <<" ">> \o Rep("a", 10) \o <<" ">>,
    <<"a", " ", "b", " ", "c", " ", "d", " ", "e", " ", "f">> }

FeedbackBodies ==
  {InvalidBody} \cup
  {[name |-> "Alice", email |-> "a@x.com", feedback |-> t] : t \in Texts}

\* (start_time, end_time) of the booking requests; day 1, offset +00:00
\* unless said otherwise
Slots ==
  { <<At(1, 10, 0, 0, 0), At(1, 11, 0, 0, 0)>>,
    <<At(1, 10, 30, 0, 0), At(1, 11, 30, 0, 0)>>,
    <<At(1, 11, 0, 0, 0), At(1, 11, 30, 0, 0)>>,
    <<At(1, 9, 0, 0, 0), At(1, 10, 0, 0, 0)>>,
    <<At(1, 11, 0, 0, 0), At(1, 10, 0, 0, 0)>>,
    <<At(1, 10, 0, 0, 0), At(1, 10, 0, 0, 0)>>,
    <<At(1, 8, 0, 0, 0), At(1, 10, 0, 0, 0)>>,
    <<At(1, 10, 0, 0, 0), At(1, 19, 0, 0, 0)>>,
    <<At(1, 17, 0, 0, 0), At(1, 18, 45, 0, 0)>>,
    <<At(1, 19, 0, 0, 0), At(1, 8, 0, 0, 0)>>,
    \* 10:00+08:00 .. 11:00+08:00, the instants 02:00Z .. 03:00Z
    <<At(1, 10, 0, 0, 8), At(1, 11, 0, 0, 8)>>,
    \* 09:00 .. 10:00:00.000500
    <<At(1, 9, 0, 0, 0), At(1, 10, 0, 500, 0)>>,
    \* 12:00:00.000100 .. 12:00:00.000900
    <<At(1, 12, 0, 100, 0), At(1, 12, 0, 900, 0)>>,
    \* day 1 17:00 .. day 2 10:00
    <<At(1, 17, 0, 0, 0), At(2, 10, 0, 0, 0)>> }

BookingBodies ==
  {InvalidBody} \cup
  {[name |-> "Alice", email |-> "a@x.com", start_time |-> s[1],
    end_time |-> s[2], topic |-> "demo"] : s \in Slots}

\* the (x-api-key, input) pairs of the requests: every input with the
\* configured key, and with a missing or wrong key one valid and one invalid input
Keyed(inputs, valid, invalid) ==
  ({API_KEY} \X inputs) \cup ((Headers \ {API_KEY}) \X {valid, invalid})

FeedbackRequests ==
  Keyed(FeedbackBodies,
        [name |-> "Alice", email |-> "a@x.com", feedback |-> Rep("a", 10)],
        InvalidBody)

BookingRequests ==
  Keyed(BookingBodies,
        [name |-> "Alice", email |-> "a@x.com", start_time |-> At(1, 10, 0, 0, 0),
         end_time |-> At(1, 11, 0, 0, 0), topic |-> "demo"],
        InvalidBody)

GetRequests == Keyed(PathIds, [hex |-> TRUE, oid |-> 1], NoId)

NoBody == [none |-> TRUE]
NoRequest == [route |-> "none", x_api_key |-> NoHeader, id |-> NoId, body |-> NoBody]

\* ------------------------------------------------------------ responses
Pass == [status |-> 0, body |-> [detail |-> ""]]

\* raise HTTPException(status_code, detail)
HTTPException(code, detail) == [status |-> code, body |-> [detail |-> detail]]

\* JSONResponse(status_code, content={"status": "failed", "reason": reason})
Failed(code, reason) ==
  [status |-> code, body |-> [status |-> "failed", reason |-> reason]]

\* the 409 of create_booking; the reason ends with str(existing_booking["_id"])
Conflict(existing) ==
  [status |-> 409,
   body |-> [status |-> "failed",
             reason |-> "Time slot unavailable. Overlaps with booking ID: ",
             id |-> existing._id]]

\* a returned document, serialised by the response_model
Ok(doc) == [status |-> 200, body |-> doc]

\* x_api_key: str = Header(...), or a body the model rejects
ValidationError == [status |-> 422, body |-> [detail |-> "Field required"]]

\* verify_api_key
verify_api_key(x_api_key) ==
  IF x_api_key # API_KEY
  THEN HTTPException(401, "Invalid or missing API Key")
  ELSE Pass

\* dependencies=[Depends(verify_api_key)] and the body parameter of a route:
\* the dependency runs when its header parameter is present, and its
\* HTTPException ends the request; a missing header or a body the model
\* rejects is a validation error of the request
Depends(rq, fields) ==
  IF rq.x_api_key # NoHeader /\ verify_api_key(rq.x_api_key).status # 0
  THEN verify_api_key(rq.x_api_key)
  ELSE IF rq.x_api_key = NoHeader \/ ~(fields \subseteq DOMAIN rq.body)
  THEN ValidationError
  ELSE Pass

\* ------------------------------------------------------------ state
VARIABLES
  now,       \* datetime.now(timezone.utc)
  feedback,  \* db["feedback"]: a set of documents
  bookings,  \* db["bookings"]: a set of documents
  pc,        \* where each handler is: idle, an await, or done
  req,       \* the request each handler was called with
  locals,    \* feedback_data["time"] and result.inserted_id of each handler
  resp       \* the response each handler returned

vars == <<now, feedback, bookings, pc, req, locals, resp>>

NoResponse == [status |-> 0, body |-> [detail |-> ""]]
NoLocals == [time |-> At(0, 0, 0, 0, 0), inserted_id |-> 0]

Init ==
  /\ now = At(1, 0, 0, 0, 0)
  /\ feedback = {}
  /\ bookings = {}
  /\ pc = [r \in Reqs |-> "idle"]
  /\ req = [r \in Reqs |-> NoRequest]
  /\ locals = [r \in Reqs |-> NoLocals]
  /\ resp = [r \in Reqs |-> NoResponse]

\* the next ObjectId the server assigns: unique over both collections
NewObjectId == Cardinality(feedback) + Cardinality(bookings) + 1

\* collection.find_one({"_id": oid}): the documents it can return
FindById(coll, oid) == {d \in coll : d._id = oid}

\* requests are taken in the order of their slots
Arrives(r) == pc[r] = "idle" /\ \A q \in Reqs : q < r => pc[q] # "idle"

Respond(r, x) ==
  /\ pc' = [pc EXCEPT ![r] = "done"]
  /\ resp' = [resp EXCEPT ![r] = x]

Await(r, label) ==
  /\ pc' = [pc EXCEPT ![r] = label]
  /\ UNCHANGED resp

\* the instants the clock is read at after the start: 10:15:00.000250
ClockInstants == {At(1, 10, 15, 250, 0)}

\* the clock advances while handlers wait
Tick ==
  /\ \E t \in ClockInstants : Before(now, t) /\ now' = t
  /\ UNCHANGED <<feedback, bookings, pc, req, locals, resp>>

\* GET /
root(r) ==
  /\ Arrives(r)
  /\ \E k \in Headers :
       req' = [req EXCEPT ![r] =
                 [route |-> "GET /", x_api_key |-> k, id |-> NoId, body |-> NoBody]]
  /\ Respond(r, [status |-> 200, body |-> [message |-> "API is running."]])
  /\ UNCHANGED <<now, feedback, bookings, locals>>

\* ------------------------------------------------------------ feedback
\* create_feedback with the insert issued before the length check
create_feedback_insert_first(r) ==
  /\ Arrives(r)
  /\ \E kb \in FeedbackRequests :
       LET b == kb[2]
           rq == [route |-> "POST /feedback", x_api_key |-> kb[1], id |-> NoId, body |-> b]
           pre == Depends(rq, FeedbackFields)
       IN /\ req' = [req EXCEPT ![r] = rq]
          /\ IF pre.status # 0
             THEN Respond(r, pre) /\ UNCHANGED <<locals, feedback>>
             ELSE /\ feedback' = feedback \cup
                       {[_id |-> NewObjectId, name |-> b.name, email |-> b.email,
                         feedback |-> b.feedback, time |-> ToBson(now)]}
                  /\ locals' = [locals EXCEPT ![r] = [time |-> now, inserted_id |-> NewObjectId]]
                  /\ IF TooShort(b.feedback)
                     THEN Respond(r, HTTPException(400, "Feedback too short."))
                     ELSE Await(r, "fb_reread")
  /\ UNCHANGED <<now, bookings>>

\* POST /feedback up to the await of insert_one
create_feedback(r) ==
  /\ Arrives(r)
  /\ \E kb \in FeedbackRequests :
       LET b == kb[2]
           rq == [route |-> "POST /feedback", x_api_key |-> kb[1], id |-> NoId, body |-> b]
           pre == Depends(rq, FeedbackFields)
       IN /\ req' = [req EXCEPT ![r] = rq]
          /\ IF pre.status # 0
             THEN Respond(r, pre) /\ UNCHANGED locals
             ELSE IF TooShort(b.feedback)
             THEN Respond(r, HTTPException(400, "Feedback too short.")) /\ UNCHANGED locals
             ELSE /\ Await(r, "fb_insert")
                  /\ locals' = [locals EXCEPT ![r].time = now]
  /\ UNCHANGED <<now, feedback, bookings>>

\* db["feedback"].insert_one(feedback_data)
feedback_insert_one(r) ==
  /\ pc[r] = "fb_insert"
  /\ feedback' = feedback \cup
       {[_id |-> NewObjectId, name |-> req[r].body.name, email |-> req[r].body.email,
         feedback |-> req[r].body.feedback, time |-> ToBson(locals[r].time)]}
  /\ locals' = [locals EXCEPT ![r].inserted_id = NewObjectId]
  /\ Await(r, "fb_reread")
  /\ UNCHANGED <<now, bookings, req>>

\* created_feedback = db["feedback"].find_one({"_id": result.inserted_id})
feedback_reread(r) ==
  /\ pc[r] = "fb_reread"
  /\ \E d \in FindById(feedback, locals[r].inserted_id) : Respond(r, Ok(d))
  /\ UNCHANGED <<now, feedback, bookings, req, locals>>

\* GET /feedback/{id} up to the await of find_one
get_feedback(r) ==
  /\ Arrives(r)
  /\ \E ki \in GetRequests :
       LET i == ki[2]
           rq == [route |-> "GET /feedback/{id}", x_api_key |-> ki[1], id |-> i, body |-> NoBody]
           pre == Depends(rq, {})
       IN /\ req' = [req EXCEPT ![r] = rq]
          /\ IF pre.status # 0
             THEN Respond(r, pre)
             ELSE IF ~ObjectIdIsValid(i)
             THEN Respond(r, HTTPException(400, "Invalid ID format"))
             ELSE Await(r, "fb_find")
  /\ UNCHANGED <<now, feedback, bookings, locals>>

\* doc = db["feedback"].find_one({"_id": ObjectId(id)})
feedback_find_one(r) ==
  /\ pc[r] = "fb_find"
  /\ IF FindById(feedback, req[r].id.oid) = {}
     THEN Respond(r, HTTPException(404, "Not found"))
     ELSE \E d \in FindById(feedback, req[r].id.oid) : Respond(r, Ok(d))
  /\ UNCHANGED <<now, feedback, bookings, req, locals>>

\* ------------------------------------------------------------ bookings
\* the logic checks of create_booking, office hours before the past check
LogicChecksHoursFirst(booking, t) ==
  IF ~Before(booking.start_time, booking.end_time)
  THEN Failed(400, "Start time must be before end time.")
  ELSE IF Hour(booking.start_time) < OpenHour \/ Hour(booking.end_time) > CloseHour
  THEN Failed(400, "Cannot create a booking outside office hours.")
  ELSE IF Before(booking.start_time, t)
  THEN Failed(400, "Cannot create a booking in the past.")
  ELSE Pass

\* "# 1. Logic Checks" of create_booking, t being datetime.now(timezone.utc)
LogicChecks(booking, t) ==
  IF ~Before(booking.start_time, booking.end_time)
  THEN Failed(400, "Start time must be before end time.")
  ELSE IF Before(booking.start_time, t)
  THEN Failed(400, "Cannot create a booking in the past.")
  ELSE IF Hour(booking.start_time) < OpenHour \/ Hour(booking.end_time) > CloseHour
  THEN Failed(400, "Cannot create a booking outside office hours.")
  ELSE Pass

\* the overlap query with its two bounds exchanged: containment, not overlap
OverlapQueryContains(coll, booking) ==
  {d \in coll : Before(d.start_time, ToBson(booking.start_time))
                /\ Before(ToBson(booking.end_time), d.end_time)}

\* the overlap query with $lte / $gte for $lt / $gt
OverlapQueryInclusive(coll, booking) ==
  {d \in coll : ~Before(ToBson(booking.end_time), d.start_time)
                /\ ~Before(d.end_time, ToBson(booking.start_time))}

\* find_one(overlap_query): the stored documents with
\* start_time < booking.end_time and end_time > booking.start_time,
\* the filter's datetimes encoded as the stored ones are
OverlapQuery(coll, booking) ==
  {d \in coll : Before(d.start_time, ToBson(booking.end_time))
                /\ Before(ToBson(booking.start_time), d.end_time)}

\* POST /booking up to the await of find_one(overlap_query)
create_booking(r) ==
  /\ Arrives(r)
  /\ \E kb \in BookingRequests :
       LET b == kb[2]
           rq == [route |-> "POST /booking", x_api_key |-> kb[1], id |-> NoId, body |-> b]
           pre == Depends(rq, BookingFields)
       IN /\ req' = [req EXCEPT ![r] = rq]
          /\ IF pre.status # 0
             THEN Respond(r, pre)
             ELSE IF LogicChecks(b, now).status # 0
             THEN Respond(r, LogicChecks(b, now))
             ELSE Await(r, "bk_overlap")
  /\ UNCHANGED <<now, feedback, bookings, locals>>

\* existing_booking = db["bookings"].find_one(overlap_query), and the 409
booking_find_overlap(r) ==
  /\ pc[r] = "bk_overlap"
  /\ IF OverlapQuery(bookings, req[r].body) = {}
     THEN Await(r, "bk_insert")
     ELSE \E existing \in OverlapQuery(bookings, req[r].body) :
            Respond(r, Conflict(existing))
  /\ UNCHANGED <<now, feedback, bookings, req, locals>>

\* new_booking = booking.model_dump(), as insert_one stores it
NewBooking(r) ==
  [_id |-> NewObjectId, name |-> req[r].body.name, email |-> req[r].body.email,
   start_time |-> ToBson(req[r].body.start_time),
   end_time |-> ToBson(req[r].body.end_time), topic |-> req[r].body.topic]

\* insert_one made atomic with the overlap query (a transaction, a constraint)
booking_insert_one_checked(r) ==
  /\ pc[r] = "bk_insert"
  /\ IF OverlapQuery(bookings, req[r].body) = {}
     THEN /\ bookings' = bookings \cup {NewBooking(r)}
          /\ locals' = [locals EXCEPT ![r].inserted_id = NewObjectId]
          /\ Await(r, "bk_reread")
     ELSE /\ \E existing \in OverlapQuery(bookings, req[r].body) :
               Respond(r, Conflict(existing))
          /\ UNCHANGED <<bookings, locals>>
  /\ UNCHANGED <<now, feedback, req>>

\* result = db["bookings"].insert_one(new_booking)
booking_insert_one(r) ==
  /\ pc[r] = "bk_insert"
  /\ bookings' = bookings \cup {NewBooking(r)}
  /\ locals' = [locals EXCEPT ![r].inserted_id = NewObjectId]
  /\ Await(r, "bk_reread")
  /\ UNCHANGED <<now, feedback, req>>

\* return booking.model_dump() in place of the document read back
booking_reread_dump(r) ==
  /\ pc[r] = "bk_reread"
  /\ Respond(r, Ok([_id |-> locals[r].inserted_id, name |-> req[r].body.name,
                    email |-> req[r].body.email,
                    start_time |-> req[r].body.start_time,
                    end_time |-> req[r].body.end_time,
                    topic |-> req[r].body.topic]))
  /\ UNCHANGED <<now, feedback, bookings, req, locals>>

\* created_booking = db["bookings"].find_one({"_id": result.inserted_id})
booking_reread(r) ==
  /\ pc[r] = "bk_reread"
  /\ \E d \in FindById(bookings, locals[r].inserted_id) : Respond(r, Ok(d))
  /\ UNCHANGED <<now, feedback, bookings, req, locals>>

\* GET /booking/{id} up to the await of find_one
get_booking(r) ==
  /\ Arrives(r)
  /\ \E ki \in GetRequests :
       LET i == ki[2]
           rq == [route |-> "GET /booking/{id}", x_api_key |-> ki[1], id |-> i, body |-> NoBody]
           pre == Depends(rq, {})
       IN /\ req' = [req EXCEPT ![r] = rq]
          /\ IF pre.status # 0
             THEN Respond(r, pre)
             ELSE IF ~ObjectIdIsValid(i)
             THEN Respond(r, Failed(400, "Invalid ID format"))
             ELSE Await(r, "bk_find")
  /\ UNCHANGED <<now, feedback, bookings, locals>>

\* doc = db["bookings"].find_one({"_id": ObjectId(id)})
booking_find_one(r) ==
  /\ pc[r] = "bk_find"
  /\ IF FindById(bookings, req[r].id.oid) = {}
     THEN Respond(r, HTTPException(404, "Not found"))
     ELSE \E d \in FindById(bookings, req[r].id.oid) : Respond(r, Ok(d))
  /\ UNCHANGED <<now, feedback, bookings, req, locals>>

\* ------------------------------------------------------------ specifications
Next ==
  \/ Tick
  \/ \E r \in Reqs :
       \/ root(r)
       \/ create_feedback(r)
       \/ feedback_insert_one(r)
       \/ feedback_reread(r)
       \/ get_feedback(r)
       \/ feedback_find_one(r)
       \/ create_booking(r)
       \/ booking_find_overlap(r)
       \/ booking_insert_one(r)
       \/ booking_reread(r)
       \/ get_booking(r)
       \/ booking_find_one(r)

Spec == Init /\ [][Next]_vars

\* no other handler is between its overlap query and its insert
Serialized(r) == \A q \in Reqs \ {r} : pc[q] # "bk_insert"

\* the same handlers, POST /booking serialized from its overlap query to its insert
NextSerial ==
  \/ Tick
  \/ \E r \in Reqs :
       \/ root(r)
       \/ create_feedback(r)
       \/ feedback_insert_one(r)
       \/ feedback_reread(r)
       \/ get_feedback(r)
       \/ feedback_find_one(r)
       \/ create_booking(r)
       \/ Serialized(r) /\ booking_find_overlap(r)
       \/ Serialized(r) /\ booking_insert_one(r)
       \/ booking_reread(r)
       \/ get_booking(r)
       \/ booking_find_one(r)

SpecSerial == Init /\ [][NextSerial]_vars

\* ------------------------------------------------------------ claims
Done(r) == pc[r] = "done"

PostBooking(r) == req[r].route = "POST /booking"
PostFeedback(r) == req[r].route = "POST /feedback"
Protected(r) ==
  req[r].route \in {"POST /feedback", "GET /feedback/{id}", "POST /booking", "GET /booking/{id}"}

\* glossary: [s1,e1) and [s2,e2) overlap if s1 < e2 and s2 < e1
Overlap(a, b) == Before(a.start_time, b.end_time) /\ Before(b.start_time, a.end_time)

\* the two documents that two handlers stored
BothStored(r, q) ==
  /\ r # q /\ Done(r) /\ Done(q) /\ PostBooking(r) /\ PostBooking(q)
  /\ resp[r].status = 200 /\ resp[q].status = 200
  /\ resp[r].body \in bookings /\ resp[q].body \in bookings

\* C1: in every reachable state no two distinct stored bookings overlap
C1_NoStoredOverlap ==
  \A a \in bookings : \A b \in bookings \ {a} :
    ~(Before(a.start_time, b.end_time) /\ Before(b.start_time, a.end_time))

\* C2: a handler whose overlap query found nothing inserts its booking
\* whatever the collection holds by then, and then returns 200 with it
C2_InsertAfterQueryUnconditional ==
  [][\A r \in Reqs :
       /\ (pc[r] = "bk_insert" /\ pc'[r] # "bk_insert") =>
            /\ pc'[r] = "bk_reread"
            /\ \E d \in bookings' \ bookings :
                 /\ d._id = locals'[r].inserted_id
                 /\ d.start_time = ToBson(req[r].body.start_time)
                 /\ d.end_time = ToBson(req[r].body.end_time)
       /\ (pc[r] = "bk_reread" /\ pc'[r] # "bk_reread") =>
            /\ pc'[r] = "done"
            /\ resp'[r].status = 200
            /\ resp'[r].body \in bookings']_vars

\* C2 witness: two handlers returned 200 and their stored bookings overlap
C2_Witness ==
  \E r, q \in Reqs : BothStored(r, q) /\ Overlap(resp[r].body, resp[q].body)

\* C3: a protected route called without the header or with a wrong key
\* answers 401 "Invalid or missing API Key" and stores nothing; only GET /
\* answers without the header
C3_Unauthorized401 ==
  \A r \in Reqs :
    (Done(r) /\ Protected(r) /\ req[r].x_api_key # API_KEY) =>
      /\ resp[r].status = 401
      /\ resp[r].body.detail = "Invalid or missing API Key"
      /\ locals[r].inserted_id = 0

\* C4: a POST answered 400 or 409 leaves both collections as they were,
\* and its handler issued no insert
C4_ErrorsStoreNothing ==
  [][\A r \in Reqs :
       (resp[r].status = 0 /\ resp'[r].status \in {400, 409}
        /\ req'[r].route \in {"POST /feedback", "POST /booking"}) =>
         /\ feedback' = feedback
         /\ bookings' = bookings
         /\ locals'[r].inserted_id = 0]_vars

\* C4 witness: a booking is stored and a later POST /booking got 409
C4_Witness ==
  /\ bookings # {}
  /\ \E r \in Reqs : Done(r) /\ PostBooking(r) /\ resp[r].status = 409

\* the checks of POST /booking as the spec numbers them
Violates1(b) == ~Before(b.start_time, b.end_time)
Violates2(b, t) == Before(b.start_time, t)
Violates3(b) == Hour(b.start_time) < 9 \/ Hour(b.end_time) > 18

\* an authorized POST /booking with a well-formed body
Checked(rq) ==
  /\ rq.route = "POST /booking"
  /\ rq.x_api_key = API_KEY
  /\ BookingFields \subseteq DOMAIN rq.body

OverlapsAsSent(e, b) ==
  Before(e.start_time, b.end_time) /\ Before(b.start_time, e.end_time)

\* the overlap predicate on the request's datetimes as the driver encodes them
OverlapsAsEncoded(e, b) ==
  Before(e.start_time, ToBson(b.end_time)) /\ Before(ToBson(b.start_time), e.end_time)

\* C6 as stated: the response is 409 iff a stored booking overlaps the
\* requested range
C6_ConflictIffOverlapAsSent ==
  [][\A r \in Reqs :
       (pc[r] = "bk_overlap" /\ pc'[r] # "bk_overlap") =>
         ((resp'[r].status = 409) <=>
            \E e \in bookings : OverlapsAsSent(e, req[r].body))]_vars

\* C6 amended: the response is 409 iff a stored booking overlaps the requested
\* range taken at millisecond precision; the 409 names such a booking; a
\* request that overlaps nothing (adjacent ones too) goes on to insert, and a
\* 200 returns a stored booking
C6_ConflictIffOverlapAsEncoded ==
  [][\A r \in Reqs :
       /\ (pc[r] = "bk_overlap" /\ pc'[r] # "bk_overlap") =>
            /\ (resp'[r].status = 409) <=>
                 \E e \in bookings : OverlapsAsEncoded(e, req[r].body)
            /\ resp'[r].status = 409 =>
                 \E e \in bookings :
                   e._id = resp'[r].body.id /\ OverlapsAsEncoded(e, req[r].body)
            /\ resp'[r].status # 409 => pc'[r] = "bk_insert"
       /\ (pc[r] = "bk_insert" /\ pc'[r] # "bk_insert") =>
            \E d \in bookings' : d._id = locals'[r].inserted_id
       /\ (pc[r] = "bk_reread" /\ pc'[r] # "bk_reread") =>
            resp'[r].status = 200 /\ resp'[r].body \in bookings']_vars

\* C6 witness: two bookings are stored, one starting at the millisecond the
\* other ends at, and the end of the earlier one was sent with microseconds
C6_Witness ==
  \E r, q \in Reqs :
    /\ BothStored(r, q)
    /\ resp[r].body.start_time = resp[q].body.end_time
    /\ req[q].body.end_time.us # 0

\* the collection of a route
CollectionOf(route) ==
  IF route \in {"POST /feedback", "GET /feedback/{id}"} THEN feedback ELSE bookings

GetOf(route) ==
  IF route = "POST /feedback" THEN "GET /feedback/{id}" ELSE "GET /booking/{id}"

Created(r) ==
  /\ Done(r) /\ (PostFeedback(r) \/ PostBooking(r)) /\ resp[r].status = 200

\* C7: the record a POST returned with 200 stays stored under its identifier,
\* unchanged, and a GET of that identifier that runs once the POST has
\* returned answers 200 with a record equal to it in all fields
C7_RoundTrip ==
  /\ [](\A r \in Reqs :
          Created(r) =>
            FindById(CollectionOf(req[r].route), resp[r].body._id) = {resp[r].body})
  /\ [][\A g \in Reqs :
          (pc[g] \in {"fb_find", "bk_find"} /\ pc'[g] # pc[g]) =>
            \A r \in Reqs :
              (Created(r) /\ req[g].route = GetOf(req[r].route)
               /\ req[g].id.oid = resp[r].body._id) =>
                resp'[g] = Ok(resp[r].body)]_vars

\* C7 witness: a GET returned the booking a POST had returned, whose stored
\* end differs from the end_time that was sent
C7_Witness ==
  \E r, g \in Reqs :
    /\ Created(r) /\ PostBooking(r) /\ Done(g)
    /\ req[g].route = "GET /booking/{id}"
    /\ resp[g] = Ok(resp[r].body)
    /\ resp[r].body.end_time # req[r].body.end_time

\* the number of non-whitespace characters of a text
NonWhitespace(s) == Cardinality({i \in 1..Len(s) : ~IsSpace(s[i])})

FeedbackChecked(r) ==
  /\ PostFeedback(r) /\ req[r].x_api_key = API_KEY
  /\ FeedbackFields \subseteq DOMAIN req[r].body

\* C8 as stated: a text with fewer than 10 non-whitespace characters is
\* answered 400 "Feedback too short." and nothing is inserted
C8_FewNonWhitespaceRejected ==
  \A r \in Reqs :
    (FeedbackChecked(r) /\ pc[r] # "idle" /\ NonWhitespace(req[r].body.feedback) < 10) =>
      /\ Done(r)
      /\ resp[r] = HTTPException(400, "Feedback too short.")
      /\ locals[r].inserted_id = 0

\* C8 amended: a text of fewer than 10 characters after trimming is answered
\* 400 "Feedback too short.", nothing is inserted, and no stored feedback is
\* that short
C8_ShortAfterTrimRejected ==
  /\ \A r \in Reqs :
       (FeedbackChecked(r) /\ pc[r] # "idle" /\ Len(Strip(req[r].body.feedback)) < 10) =>
         /\ Done(r)
         /\ resp[r] = HTTPException(400, "Feedback too short.")
         /\ locals[r].inserted_id = 0
  /\ \A d \in feedback : Len(Strip(d.feedback)) >= 10

\* C8 witness: a text of 12 characters, 9 after trimming, was rejected and a
\* feedback is stored
C8_Witness ==
  /\ \E r \in Reqs :
       /\ Done(r) /\ FeedbackChecked(r)
       /\ Len(req[r].body.feedback) >= 10
       /\ Len(Strip(req[r].body.feedback)) < 10
       /\ resp[r].status = 400
  /\ feedback # {}

\* C9: every stored booking starts strictly before it ends, and the hours of
\* its stored UTC instants lie in office hours
C9_StoredWithinOfficeHours ==
  \A d \in bookings :
    /\ Before(d.start_time, d.end_time)
    /\ Hour(d.start_time) >= 9
    /\ Hour(d.end_time) <= 18

\* C10: with POST /booking serialized from query to insert, no two distinct
\* stored bookings overlap
C10_SerializedNoOverlap ==
  \A a, b \in bookings : a # b => ~Overlap(a, b)

\* C10 witness: serialized, a request whose range overlaps a stored booking
\* was refused with 409 naming it
C10_Witness ==
  \E r, q \in Reqs :
    /\ Done(r) /\ Done(q) /\ PostBooking(r) /\ PostBooking(q)
    /\ resp[r].status = 200 /\ resp[q].status = 409
    /\ resp[q].body.id = resp[r].body._id
    /\ resp[r].body \in bookings

====
